---- MODULE Spec2Model ----
\* Model of the video assembly pipeline of MovieGen (src/agents/burns_ffmpeg.py):
\* one run of the script is a sequence of stage steps over the scene directory,
\* and the scene directory persists from one run to the next.
EXTENDS Integers, Sequences, FiniteSets, TLC

\* ------------------------------------------------------------------ bounds
MaxImages == 2
MaxRuns == 2
MaxFrames == 3
MaxWords == 9

\* ------------------------------------------------------------------ program constants
\* durations are in centiseconds, volumes in dB
FallbackDuration == 3000
SilenceThreshold == -60
fps == 25

\* ------------------------------------------------------------------ names
\* beat_<digits>.png, written as the digit string of the stem; "." sorts below
\* every digit, so a stem that is a proper prefix of another sorts first.
ImageNames == { <<1>>, <<2>>, <<1, 0>> }

ClipNames == << "temp_clip_01.mp4", "temp_clip_02.mp4", "temp_clip_03.mp4", "temp_clip_04.mp4" >>

TrackFiles == { "music_a.mp3" }

CoreFiles == { "concat_list.txt", "temp_video.mp4", "movie.mp4",
               "movie_subtitled.mp4", "movie_final.mp4", "music_trimmed.mp3" }

Files == CoreFiles \cup TrackFiles \cup { ClipNames[k] : k \in 1..Len(ClipNames) }

\* narration audio as the probers see it
AudioStates ==
  { [exists |-> FALSE, durOk |-> FALSE, dur |-> 0,   volOk |-> FALSE, vol |-> 0],
    [exists |-> TRUE,  durOk |-> FALSE, dur |-> 0,   volOk |-> FALSE, vol |-> 0],
    [exists |-> TRUE,  durOk |-> TRUE,  dur |-> 0,   volOk |-> FALSE, vol |-> 0],
    [exists |-> TRUE,  durOk |-> TRUE,  dur |-> 400, volOk |-> TRUE,  vol |-> 0 - 61],
    [exists |-> TRUE,  durOk |-> TRUE,  dur |-> 400, volOk |-> TRUE,  vol |-> 0 - 60],
    [exists |-> TRUE,  durOk |-> TRUE,  dur |-> 400, volOk |-> TRUE,  vol |-> 0 - 20],
    [exists |-> TRUE,  durOk |-> TRUE,  dur |-> 10,  volOk |-> TRUE,  vol |-> 0 - 20],
    [exists |-> TRUE,  durOk |-> TRUE,  dur |-> 400, volOk |-> FALSE, vol |-> 0] }

VARIABLES
  client_id,      \* JAMENDO_CLIENT is set in the environment
  scene_path,     \* "scene" when a scene_* directory exists, "none" otherwise
  images,         \* beat_*.png files of the image folder
  audio,          \* the narration file
  srt,            \* speech.srt exists
  fs,             \* files of the image folder the pipeline writes
  run,            \* number of the current run
  prev,           \* what the previous run did, when it succeeded throughout
  pc,             \* position of the script
  exit_status,    \* exit status of the run, once pc = "done"
  image_files,
  audio_duration,
  time_per_image, \* audio_duration / num_images, as a fraction of centiseconds
  frames_per_image,
  i,              \* 1-based index of the render loop
  temp_clips,
  procs,          \* encoder processes running
  manifest,       \* lines written to concat_list.txt in this run
  log,            \* what the run has done so far, in order
  zp,             \* one call of generate_random_zoompan: its draws and its result
  zp2,            \* a second call of generate_random_zoompan
  chunker         \* one call of split_into_chunks

vars == << client_id, scene_path, images, audio, srt, fs, run, prev, pc, exit_status,
           image_files, audio_duration, time_per_image, frames_per_image, i, temp_clips,
           procs, manifest, log, zp, zp2, chunker >>

inputs == << client_id, scene_path, images, audio, srt, zp, zp2, chunker >>

timing == << audio_duration, time_per_image, frames_per_image >>

\* the state of the pipeline and of the scene directory
pipeline == << client_id, scene_path, images, audio, srt, fs, run, prev, pc, exit_status,
               image_files, timing, i, temp_clips, procs, manifest, log >>

\* ------------------------------------------------------------------ helpers
NoTime == [num |-> 0, den |-> 1]

NoPrev == [ok |-> FALSE, calls |-> <<>>, files |-> {}]

Entry(cmd, img, src, dst, rc, exited) ==
  [cmd |-> cmd, img |-> img, src |-> src, dst |-> dst, rc |-> rc, exited |-> exited,
   t |-> NoTime, frames |-> 0]

\* an entry with its -t argument and the frame count of its filter
Timed(e, t, frames) == [e EXCEPT !.t = t, !.frames = frames]

Py(cmd, dst) == Entry(cmd, <<>>, "", dst, 0, TRUE)

Proc(cmd, src, dst, rc) == Entry(cmd, <<>>, src, dst, rc, TRUE)

ProcessCmds == { "ffprobe_duration", "render", "concat", "ffprobe_silence", "volumedetect",
                 "mux", "ffprobe_verify", "subtitle", "trim", "mix" }

Exit(status) == pc' = "done" /\ exit_status' = status

\* string comparison of two image names
RECURSIVE LexLess(_, _)
LexLess(a, b) ==
  IF a = <<>> THEN b # <<>>
  ELSE IF b = <<>> THEN FALSE
  ELSE IF Head(a) # Head(b) THEN Head(a) < Head(b)
  ELSE LexLess(Tail(a), Tail(b))

RECURSIVE Insert(_, _)
Insert(x, s) ==
  IF s = <<>> THEN << x >>
  ELSE IF LexLess(x, Head(s)) THEN << x >> \o s
  ELSE << Head(s) >> \o Insert(x, Tail(s))

RECURSIVE Sorted(_)
Sorted(s) == IF s = <<>> THEN <<>> ELSE Insert(Head(s), Sorted(Tail(s)))

\* the orders in which glob may list a set of files
GlobOrders(S) ==
  { s \in [1..Cardinality(S) -> S] : \A j, k \in 1..Cardinality(S) : j # k => s[j] # s[k] }

\* the files in the order glob listed them
get_image_files_unsorted(order) == order

get_image_files(order) == Sorted(order)

\* the prober's value used without a fallback
get_audio_duration_nofallback(a) == a.dur

get_audio_duration(a) == IF a.durOk THEN a.dur ELSE FallbackDuration

\* a mean volume at the threshold counted as silence
is_audio_silent_inclusive(a) ==
  IF ~a.durOk THEN TRUE
  ELSE IF a.dur = 0 THEN TRUE
  ELSE IF a.volOk THEN a.vol <= SilenceThreshold
  ELSE FALSE

is_audio_silent(a) ==
  IF ~a.durOk THEN TRUE
  ELSE IF a.dur = 0 THEN TRUE
  ELSE IF a.volOk THEN a.vol < SilenceThreshold
  ELSE FALSE

\* the empty image list let through
NoImages_never(num_images) == num_images < 0

NoImages(num_images) == num_images = 0

ClipName(k) == ClipNames[k]

Abspath(name) == << "cwd", name >>

ManifestLine(path) == [directive |-> "file", path |-> path]

\* only the first clip looked at
missing_clips_first(clips, f) ==
  IF clips # <<>> /\ f[Head(clips)] = "absent" THEN << Head(clips) >> ELSE <<>>

RECURSIVE missing_clips(_, _)
missing_clips(clips, f) ==
  IF clips = <<>> THEN <<>>
  ELSE (IF f[Head(clips)] = "absent" THEN << Head(clips) >> ELSE <<>>)
       \o missing_clips(Tail(clips), f)

subtitled_output == "movie_subtitled.mp4"

output_file == "movie.mp4"

MixInput == subtitled_output

\* the later stages entered whatever the mux encoder returned
AfterMux_always(rc) == "subtitle"

AfterMux(rc) == IF rc = 0 THEN "subtitle" ELSE "done"

\* the missing audio stream treated as a failure of the run
AfterVerify_fatal(verified) == IF verified THEN "subtitle" ELSE "done"

\* an undetected audio stream is only printed
AfterVerify(verified) == "subtitle"

\* the burn-in attempted whether or not speech.srt exists
HasSubtitles_always(srt_exists) == TRUE

HasSubtitles(srt_exists) == srt_exists

\* a failed burn-in ending the run
AfterSubtitle_fatal(rc) == IF rc = 0 THEN "music" ELSE "done"

\* the result of the burn-in is only printed
AfterSubtitle(rc) == "music"

trimmed_music == "music_trimmed.mp3"

final_output == "movie_final.mp4"

\* the mix attempted whatever the trim returned
MixAfterTrim_always(trim_rc) == TRUE

MixAfterTrim(trim_rc) == trim_rc = 0

\* a failed concatenation printed and not acted on
AfterConcat_continue(rc, exists) == "silence"

AfterConcat(rc, exists) ==
  IF rc # 0 THEN "done" ELSE IF ~exists THEN "done" ELSE "silence"

\* the encoder started and not waited for
RunWaits_never == FALSE

\* subprocess.run returns when the encoder has exited
RunWaits == TRUE

\* ------------------------------------------------------------------ the effect synthesizer
\* zoom factors and pan coordinates are in hundredths
PanMax == 30
MinMove == 10
NudgeStep == 20

ZoomStartDraws == { 100, 120, 140 }

ZoomEndDraws == { 120, 150 }

PanDraws == { 0, 5, 15, 30 }

EasingTypes == { "", "in", "out", "in_out" }

\* the random draws of one call, in the order the function makes them
Draws ==
  [zoom_start : ZoomStartDraws, zoom_end : ZoomEndDraws, swap : BOOLEAN,
   x_start : PanDraws, y_start : PanDraws, x_end : PanDraws, y_end : PanDraws,
   x_up : BOOLEAN, y_up : BOOLEAN, easing : EasingTypes]

NoEffect == [zoom_start |-> 0, zoom_end |-> 0, x_start |-> 0, y_start |-> 0,
             x_end |-> 0, y_end |-> 0, easing |-> ""]

NoDraws == [zoom_start |-> 0, zoom_end |-> 0, swap |-> FALSE, x_start |-> 0, y_start |-> 0,
            x_end |-> 0, y_end |-> 0, x_up |-> FALSE, y_up |-> FALSE, easing |-> ""]

\* the filter expression not built
NoFilter == [z |-> << >>, x |-> << >>, y |-> << >>, d |-> 0, s |-> ""]

ZpIdle == [pc |-> "idle", frames |-> 0, d |-> NoDraws, out |-> NoEffect, filter |-> NoFilter]

\* a call with frame count D and draws d, before it returns
ZpCalled(D, d) == [pc |-> "called", frames |-> D, d |-> d, out |-> NoEffect, filter |-> NoFilter]

Abs(v) == IF v < 0 THEN 0 - v ELSE v

Min(a, b) == IF a < b THEN a ELSE b

Max(a, b) == IF a > b THEN a ELSE b

\* the nudged coordinate left as it is
Clamp_none(v) == v

\* max(0, min(0.3, v))
Clamp(v) == Max(0, Min(PanMax, v))

\* "ensure some movement": an end closer than 0.1 to the start is moved to
\* start +- 0.2 and clamped
Nudge(start, end, up) ==
  IF Abs(end - start) < MinMove
  THEN Clamp(start + (IF up THEN NudgeStep ELSE 0 - NudgeStep))
  ELSE end

generate_random_zoompan(d) ==
  [zoom_start |-> IF d.swap THEN d.zoom_end ELSE d.zoom_start,
   zoom_end   |-> IF d.swap THEN d.zoom_start ELSE d.zoom_end,
   x_start    |-> d.x_start,
   y_start    |-> d.y_start,
   x_end      |-> Nudge(d.x_start, d.x_end, d.x_up),
   y_end      |-> Nudge(d.y_start, d.y_end, d.y_up),
   easing     |-> d.easing]

\* exponent of the zoom curve
ZoomPower == 2

\* exponent of the pan curves, 1.5
PanPower == [num |-> 3, den |-> 2]

\* zoom expression with the progress taken over all D frames
zoom_expr_span(e, D) ==
  [first |-> e.zoom_start, from |-> e.zoom_start, to |-> e.zoom_end,
   off |-> 1, div |-> D, pow |-> ZoomPower]

\* 'if(lte(on,1),zs,zs+(ze-zs)*pow((on-1)/(D-1),2))': the numbers and the
\* frame count the text is built from
zoom_expr(e, D) ==
  [first |-> e.zoom_start, from |-> e.zoom_start, to |-> e.zoom_end,
   off |-> 1, div |-> D - 1, pow |-> ZoomPower]

\* 'start+(end-start)*pow(on/D,1.5)'
pan_expr(start, end, D) == [from |-> start, to |-> end, off |-> 0, div |-> D, pow |-> PanPower]

\* filter whose zoom exponent follows the easing tag
zoompan_filter_eased(e, D) ==
  [z |-> [zoom_expr(e, D) EXCEPT !.pow = IF e.easing = "in" THEN 3 ELSE ZoomPower],
   x |-> pan_expr(e.x_start, e.x_end, D),
   y |-> pan_expr(e.y_start, e.y_end, D),
   d |-> D,
   s |-> "768x1280"]

\* the returned filter; the easing tag is not part of it
zoompan_filter(e, D) ==
  [z |-> zoom_expr(e, D),
   x |-> pan_expr(e.x_start, e.x_end, D),
   y |-> pan_expr(e.y_start, e.y_end, D),
   d |-> D,
   s |-> "768x1280"]

\* value of the zoom expression z at output frame on, as a fraction of hundredths
ZoomAt(z, on) ==
  IF on <= 1
  THEN [num |-> z.first, den |-> 1]
  ELSE [num |-> z.from * (z.div ^ z.pow) + (z.to - z.from) * ((on - z.off) ^ z.pow),
        den |-> z.div ^ z.pow]

\* the call returns: the parameters it settled on and the filter built from them
Return(call) ==
  LET e == generate_random_zoompan(call.d) IN
  [call EXCEPT !.pc = "returned", !.out = e, !.filter = zoompan_filter(e, call.frames)]

\* ------------------------------------------------------------------ subtitle chunks (src/agents/qts.py)
min_words == 4
max_words == 8

\* the words of the quote, text.split()
Vocabulary == { "a", "b" }

ChunkerIdle == [pc |-> "idle", words |-> << >>, chunks |-> << >>, i |-> 0]

\* words[i:j], which stops at the end of the list
Slice(words, from, to) == SubSeq(words, from + 1, Min(to, Len(words)))

\* min(max_words, max(min_words, len(words) - i))
chunk_size(words, k) == Min(max_words, Max(min_words, Len(words) - k))

\* ------------------------------------------------------------------ initial state
Init ==
  /\ client_id \in BOOLEAN
  /\ scene_path \in { "scene", "none" }
  /\ images \in { S \in SUBSET ImageNames : Cardinality(S) <= MaxImages }
  /\ audio \in AudioStates
  /\ srt \in BOOLEAN
  /\ fs = [f \in Files |-> "absent"]
  /\ run = 1
  /\ prev = NoPrev
  /\ pc = "import"
  /\ exit_status = 0
  /\ image_files = <<>>
  /\ audio_duration = 0
  /\ time_per_image = NoTime
  /\ frames_per_image = 0
  /\ i = 1
  /\ temp_clips = <<>>
  /\ procs = {}
  /\ manifest = <<>>
  /\ log = <<>>
  /\ zp = ZpIdle
  /\ zp2 = ZpIdle
  /\ chunker = ChunkerIdle

\* ------------------------------------------------------------------ steps of a run
\* module start: the client id is required, then the scene is resolved
LoadModule ==
  /\ pc = "import"
  /\ IF ~client_id THEN Exit(1) ELSE pc' = "fetch" /\ exit_status' = exit_status
  /\ UNCHANGED << inputs, fs, run, prev, image_files, timing, i, temp_clips, procs,
                  manifest, log >>

\* fetch_jamendo_track(): any failed request or malformed answer raises, and so
\* does joining the file name to a scene_path of None
FetchJamendoTrack ==
  /\ pc = "fetch"
  /\ \E ok \in BOOLEAN, track \in TrackFiles :
       IF ok /\ scene_path # "none"
       THEN /\ fs' = [fs EXCEPT ![track] = "fresh"]
            /\ log' = Append(log, Py("download", track))
            /\ pc' = "discover"
            /\ exit_status' = exit_status
       ELSE /\ Exit(1)
            /\ UNCHANGED << fs, log >>
  /\ UNCHANGED << inputs, run, prev, image_files, timing, i, temp_clips, procs, manifest >>

\* the frame count rounded to the nearest integer
FramesPerImage_rounded(t) == (t.num * fps + t.den * 50) \div (t.den * 100)

\* int(time_per_image * fps), the time a fraction of centiseconds
FramesPerImage(t) == (t.num * fps) \div (t.den * 100)

\* image discovery and timing; with no images the script exits before the
\* narration is probed, and a division by zero would raise
Discover ==
  /\ pc = "discover"
  /\ \E order \in GlobOrders(images) :
       LET files == get_image_files(order)
           num_images == Len(files)
           duration == get_audio_duration(audio)
       IN
       /\ image_files' = files
       /\ IF NoImages(num_images)
          THEN /\ Exit(1)
               /\ UNCHANGED << timing, log >>
          ELSE /\ audio_duration' = duration
               /\ log' = Append(log, Proc("ffprobe_duration", "speech.mp3", "", 0))
               /\ IF num_images = 0
                  THEN /\ Exit(1)
                       /\ UNCHANGED << time_per_image, frames_per_image >>
                  ELSE /\ time_per_image' = [num |-> duration, den |-> num_images]
                       /\ frames_per_image' = FramesPerImage(time_per_image')
                       /\ pc' = "render"
                       /\ exit_status' = exit_status
  /\ i' = 1
  /\ UNCHANGED << inputs, fs, run, prev, temp_clips, procs, manifest >>

\* the render loop starts the encoder for image i
RenderStart ==
  /\ pc = "render"
  /\ i <= Len(image_files)
  /\ temp_clips' = Append(temp_clips, ClipName(i))
  /\ log' = Append(log, Timed(Entry("render", image_files[i], "", ClipName(i), 0, FALSE),
                               time_per_image, frames_per_image))
  /\ procs' = procs \cup { ClipName(i) }
  /\ IF RunWaits THEN pc' = "render_wait" /\ i' = i ELSE pc' = "render" /\ i' = i + 1
  /\ UNCHANGED << inputs, fs, run, prev, exit_status, image_files, timing, manifest >>

\* an encoder exits; a failure is printed and the loop goes on
RenderExit ==
  /\ \E p \in procs, rc \in {0, 1} :
       /\ procs' = procs \ { p }
       /\ fs' = IF rc = 0 THEN [fs EXCEPT ![p] = "fresh"] ELSE fs
       /\ log' = [k \in 1..Len(log) |->
                    IF log[k].cmd = "render" /\ log[k].dst = p /\ ~log[k].exited
                    THEN [log[k] EXCEPT !.rc = rc, !.exited = TRUE] ELSE log[k]]
  /\ IF pc = "render_wait" THEN pc' = "render" /\ i' = i + 1 ELSE pc' = pc /\ i' = i
  /\ UNCHANGED << inputs, run, prev, exit_status, image_files, timing, temp_clips, manifest >>

\* after the loop: the clips are checked and the manifest is written
CheckClips ==
  /\ pc = "render"
  /\ i > Len(image_files)
  /\ IF missing_clips(temp_clips, fs) # <<>>
     THEN /\ Exit(1)
          /\ UNCHANGED << fs, manifest, log >>
     ELSE /\ manifest' = [k \in 1..Len(temp_clips) |-> ManifestLine(Abspath(temp_clips[k]))]
          /\ fs' = [fs EXCEPT !["concat_list.txt"] = "fresh"]
          /\ log' = Append(log, Py("write_manifest", "concat_list.txt"))
          /\ pc' = "concat"
          /\ exit_status' = exit_status
  /\ UNCHANGED << inputs, run, prev, image_files, timing, i, temp_clips, procs >>

\* concatenation of the clips into the silent video
Concat ==
  /\ pc = "concat"
  /\ \E rc \in {0, 1}, produced \in BOOLEAN :
       /\ rc # 0 => ~produced
       /\ fs' = IF produced THEN [fs EXCEPT !["temp_video.mp4"] = "fresh"] ELSE fs
       /\ log' = Append(log, Proc("concat", "concat_list.txt", "temp_video.mp4", rc))
       /\ LET next == AfterConcat(rc, fs'["temp_video.mp4"] # "absent") IN
            IF next = "done" THEN Exit(1) ELSE pc' = next /\ exit_status' = exit_status
  /\ UNCHANGED << inputs, run, prev, image_files, timing, i, temp_clips, procs, manifest >>

\* is_audio_silent(audio_file) and the check that the narration exists; the
\* volume is analysed only when the duration was read and is not zero
SilenceCheck ==
  /\ pc = "silence"
  /\ log' = log \o << Proc("ffprobe_silence", "speech.mp3", "", 0) >>
                \o (IF audio.durOk /\ audio.dur # 0
                    THEN << Proc("volumedetect", "speech.mp3", "", 0) >> ELSE <<>>)
  /\ IF is_audio_silent(audio) THEN Exit(1)
     ELSE IF ~audio.exists THEN Exit(1)
     ELSE pc' = "mux" /\ exit_status' = exit_status
  /\ UNCHANGED << inputs, fs, run, prev, image_files, timing, i, temp_clips, procs, manifest >>

\* the narration is muxed onto the silent video; on success the audio stream of
\* the result is verified, on failure the script prints and runs off its end
Mux ==
  /\ pc = "mux"
  /\ \E rc \in {0, 1}, verify_rc \in {0, 1} :
       IF rc = 0
       THEN /\ fs' = [fs EXCEPT ![output_file] = "fresh"]
            /\ log' = log \o << Proc("mux", "temp_video.mp4", output_file, rc),
                                Proc("ffprobe_verify", output_file, "", verify_rc) >>
            /\ pc' = AfterVerify(verify_rc = 0)
            /\ exit_status' = exit_status
       ELSE /\ fs' = fs
            /\ log' = Append(log, Proc("mux", "temp_video.mp4", output_file, rc))
            /\ pc' = AfterMux(rc)
            /\ exit_status' = 0
  /\ UNCHANGED << inputs, run, prev, image_files, timing, i, temp_clips, procs, manifest >>

\* subtitle burn-in, when speech.srt exists; a failure is printed
Subtitle ==
  /\ pc = "subtitle"
  /\ IF HasSubtitles(srt)
     THEN \E rc \in {0, 1} :
            /\ fs' = IF rc = 0 THEN [fs EXCEPT ![subtitled_output] = "fresh"] ELSE fs
            /\ log' = Append(log, Proc("subtitle", output_file, subtitled_output, rc))
            /\ pc' = AfterSubtitle(rc)
     ELSE /\ UNCHANGED << fs, log >>
          /\ pc' = "music"
  /\ UNCHANGED << inputs, run, prev, exit_status, image_files, timing, i, temp_clips,
                  procs, manifest >>

\* the files glob lists for music_*.mp3
MusicFiles(f) == { m \in TrackFiles \cup { "music_trimmed.mp3" } : f[m] # "absent" }

\* background music: the first candidate is trimmed to the narration's probed
\* duration, and mixed when the trim succeeded; the mix encoder cannot succeed
\* on an input that does not exist
Music ==
  /\ pc = "music"
  /\ IF MusicFiles(fs) = {}
     THEN UNCHANGED << fs, log >>
     ELSE \E music_file \in MusicFiles(fs), trim_rc \in {0, 1}, mix_rc \in {0, 1} :
            LET speech_duration == get_audio_duration(audio)
                mixes == MixAfterTrim(trim_rc)
                trimmed == IF trim_rc = 0 THEN "fresh" ELSE fs[trimmed_music]
            IN
            /\ ~mixes => mix_rc = 0
            /\ (mixes /\ mix_rc = 0) => (fs[MixInput] # "absent" /\ trimmed # "absent")
            /\ fs' = [fs EXCEPT ![trimmed_music] = trimmed,
                                ![final_output] = IF mixes /\ mix_rc = 0 THEN "fresh" ELSE @]
            /\ log' = log \o << Proc("ffprobe_duration", "speech.mp3", "", 0),
                                Timed(Proc("trim", music_file, trimmed_music, trim_rc),
                                      [num |-> speech_duration, den |-> 1], 0) >>
                           \o (IF mixes THEN << Proc("mix", MixInput, final_output, mix_rc) >>
                               ELSE <<>>)
  /\ pc' = "cleanup"
  /\ UNCHANGED << inputs, run, prev, exit_status, image_files, timing, i, temp_clips,
                  procs, manifest >>

\* cleanup that also removes the silent video
CleanupTargets_video(clips) == clips \o << "concat_list.txt", "temp_video.mp4" >>

\* the files cleanup removes: the clips of the run and the manifest
CleanupTargets(clips) == clips \o << "concat_list.txt" >>

RECURSIVE Removals(_, _)
Removals(targets, f) ==
  IF targets = <<>> THEN <<>>
  ELSE (IF f[Head(targets)] # "absent" THEN << Py("remove", Head(targets)) >> ELSE <<>>)
       \o Removals(Tail(targets), f)

Cleanup ==
  /\ pc = "cleanup"
  /\ LET targets == CleanupTargets(temp_clips) IN
       /\ fs' = [f \in Files |->
                   IF \E k \in 1..Len(targets) : targets[k] = f THEN "absent" ELSE fs[f]]
       /\ log' = log \o Removals(targets, fs)
  /\ Exit(0)
  /\ UNCHANGED << inputs, run, prev, image_files, timing, i, temp_clips, procs, manifest >>

\* a call of a run without its outcome
Call(e) == [cmd |-> e.cmd, img |-> e.img, src |-> e.src, dst |-> e.dst, t |-> e.t,
            frames |-> e.frames]

Calls(l) == [k \in 1..Len(l) |-> Call(l[k])]

\* every call returned zero; the verification of the audio stream only warns
AllOk(l) == \A k \in 1..Len(l) : l[k].cmd # "ffprobe_verify" => (l[k].exited /\ l[k].rc = 0)

Existing(f) == { x \in Files : f[x] # "absent" }

\* the script is run again on the same scene directory
NewRun ==
  /\ pc = "done"
  /\ run < MaxRuns
  /\ run' = run + 1
  /\ prev' = IF exit_status = 0 /\ (\E k \in 1..Len(log) : log[k].cmd = "mux") /\ AllOk(log)
             THEN [ok |-> TRUE, calls |-> Calls(log), files |-> Existing(fs)]
             ELSE NoPrev
  /\ fs' = [f \in Files |-> IF fs[f] = "fresh" THEN "stale" ELSE fs[f]]
  /\ pc' = "import"
  /\ exit_status' = 0
  /\ image_files' = <<>>
  /\ audio_duration' = 0
  /\ time_per_image' = NoTime
  /\ frames_per_image' = 0
  /\ i' = 1
  /\ temp_clips' = <<>>
  /\ procs' = {}
  /\ manifest' = <<>>
  /\ log' = <<>>
  /\ UNCHANGED inputs

Next ==
  \/ LoadModule
  \/ FetchJamendoTrack
  \/ Discover
  \/ RenderStart
  \/ RenderExit
  \/ CheckClips
  \/ Concat
  \/ SilenceCheck
  \/ Mux
  \/ Subtitle
  \/ Music
  \/ Cleanup
  \/ NewRun

Spec == Init /\ [][Next]_vars

\* ------------------------------------------------------------------ one call of the effect synthesizer
\* the pipeline before it is started
PipelineStill ==
  /\ client_id = TRUE
  /\ scene_path = "scene"
  /\ images = {}
  /\ audio \in { a \in AudioStates : ~a.exists }
  /\ srt = FALSE
  /\ fs = [f \in Files |-> "absent"]
  /\ run = 1
  /\ prev = NoPrev
  /\ pc = "import"
  /\ exit_status = 0
  /\ image_files = <<>>
  /\ audio_duration = 0
  /\ time_per_image = NoTime
  /\ frames_per_image = 0
  /\ i = 1
  /\ temp_clips = <<>>
  /\ procs = {}
  /\ manifest = <<>>
  /\ log = <<>>

\* the pipeline stands still; the draws of the call are chosen at the start
InitZoompan ==
  /\ PipelineStill
  /\ zp \in { ZpCalled(D, d) : D \in 2..MaxFrames, d \in Draws }
  /\ zp2 = ZpIdle
  /\ chunker = ChunkerIdle

ZoompanReturn ==
  /\ zp.pc = "called"
  /\ zp' = Return(zp)
  /\ UNCHANGED << pipeline, zp2, chunker >>

NextZoompan == ZoompanReturn

SpecZoompan == InitZoompan /\ [][NextZoompan]_vars

\* ------------------------------------------------------------------ two calls of the effect synthesizer
\* draws of the two calls: every easing tag, both zoom directions, pans that
\* are nudged and pans that are not
DrawsEasing ==
  { d \in Draws : /\ d.zoom_start = 100 /\ d.zoom_end = 150
                  /\ d.x_start \in {0, 15} /\ d.x_end \in {15, 30} /\ d.x_up
                  /\ d.y_start = 0 /\ d.y_end = 30 /\ d.y_up }

InitEasing ==
  /\ PipelineStill
  /\ zp \in { ZpCalled(D, d) : D \in 2..MaxFrames, d \in DrawsEasing }
  /\ zp2 \in { ZpCalled(D, d) : D \in 2..MaxFrames, d \in DrawsEasing }
  /\ chunker = ChunkerIdle

ZoompanReturn2 ==
  /\ zp2.pc = "called"
  /\ zp2' = Return(zp2)
  /\ UNCHANGED << pipeline, zp, chunker >>

NextEasing ==
  \/ ZoompanReturn
  \/ ZoompanReturn2

SpecEasing == InitEasing /\ [][NextEasing]_vars

\* ------------------------------------------------------------------ one call of split_into_chunks
Words == UNION { [1..n -> Vocabulary] : n \in 0..MaxWords }

InitChunks ==
  /\ PipelineStill
  /\ zp = ZpIdle
  /\ zp2 = ZpIdle
  /\ chunker \in { [pc |-> "loop", words |-> w, chunks |-> << >>, i |-> 0] : w \in Words }

\* one turn of the while loop
ChunkStep ==
  /\ chunker.pc = "loop"
  /\ chunker.i < Len(chunker.words)
  /\ LET size == chunk_size(chunker.words, chunker.i)
          chunk == Slice(chunker.words, chunker.i, chunker.i + size)
     IN chunker' = [chunker EXCEPT !.chunks = Append(@, chunk), !.i = @ + size]
  /\ UNCHANGED << pipeline, zp, zp2 >>

ChunkReturn ==
  /\ chunker.pc = "loop"
  /\ ~(chunker.i < Len(chunker.words))
  /\ chunker' = [chunker EXCEPT !.pc = "returned"]
  /\ UNCHANGED << pipeline, zp, zp2 >>

NextChunks ==
  \/ ChunkStep
  \/ ChunkReturn

SpecChunks == InitChunks /\ [][NextChunks]_vars

\* ------------------------------------------------------------------ reading the log
Idx == 1..Len(log)

Called(cmd) == \E k \in Idx : log[k].cmd = cmd

Succeeded(cmd) == \E k \in Idx : log[k].cmd = cmd /\ log[k].exited /\ log[k].rc = 0

Removed(f) == \E k \in Idx : log[k].cmd = "remove" /\ log[k].dst = f

Intermediates == { ClipNames[k] : k \in 1..Len(ClipNames) } \cup { "concat_list.txt", "temp_video.mp4" }

\* the audio the specification calls silent or invalid
SilentOrInvalid(a) == ~a.durOk \/ a.dur = 0 \/ (a.volOk /\ a.vol < -60)

\* position of an image among the images of the folder, by name
Rank(img) == 1 + Cardinality({ x \in images : LexLess(x, img) })

\* ------------------------------------------------------------------ claims

\* C1: a run exits with status zero only if its mux encoder succeeded; a run in
\* which the mux stage produced no movie.mp4 ends with a non-zero status.
C1_ExitZeroOnlyIfMuxed ==
  (pc = "done" /\ exit_status = 0) => Succeeded("mux")

\* C2: the clips of the run and the manifest are removed exactly when the mux
\* succeeded: after a successful run they are gone and temp_video.mp4 is kept,
\* and a run whose mux did not succeed removes nothing.
C2_CleanupIffSuccess ==
  /\ (pc = "done" /\ Succeeded("mux")) =>
       /\ \A k \in 1..Len(temp_clips) : fs[temp_clips[k]] = "absent" /\ Removed(temp_clips[k])
       /\ fs["concat_list.txt"] = "absent" /\ Removed("concat_list.txt")
       /\ fs["temp_video.mp4"] # "absent" /\ ~Removed("temp_video.mp4")
  /\ ~Succeeded("mux") =>
       /\ ~Called("remove")
       /\ \A f \in Intermediates : \A k \in Idx : log[k].dst = f /\ log[k].rc = 0 /\ log[k].exited
                                       /\ log[k].cmd \in {"render", "write_manifest"}
                                     => fs[f] = "fresh"

C2_Witness ==
  /\ pc = "done" /\ Succeeded("mux")
  /\ Len(temp_clips) = 2
  /\ Removed(temp_clips[1]) /\ Removed(temp_clips[2]) /\ Removed("concat_list.txt")

\* C3: once the encoder has failed for the clip of some image, the
\* concatenation encoder is not invoked in that run.
C3_RenderFailureStopsRun ==
  (\E k \in Idx : log[k].cmd = "render" /\ log[k].exited /\ log[k].rc # 0) => ~Called("concat")

\* C4: when the render loop has ended and an expected clip is absent, the next
\* step ends the run with status 1 and does nothing else: no encoder is invoked,
\* no manifest and no temp_video.mp4 is written, no file is removed.
C4_MissingClipStep ==
  (/\ pc = "render" /\ i > Len(image_files)
   /\ \E k \in 1..Len(temp_clips) : fs[temp_clips[k]] = "absent")
  => (pc' = "done" /\ exit_status' = 1 /\ log' = log /\ fs' = fs /\ manifest' = manifest)

C4_MissingClipFailsBeforeConcat == [][C4_MissingClipStep]_vars

C4_Witness ==
  /\ pc = "done" /\ exit_status = 1
  /\ Len(temp_clips) = 2 /\ Len(image_files) = 2 /\ procs = {}
  /\ fs[temp_clips[1]] # "absent" /\ fs[temp_clips[2]] = "absent"
  /\ ~Called("concat") /\ ~Called("write_manifest")

\* C5: with no speech.srt the subtitle encoder is not invoked and the mix
\* encoder takes movie.mp4 as its video input.
C5_NoSubtitleMixesMuxedVideo ==
  ~srt => /\ ~Called("subtitle")
          /\ \A k \in Idx : log[k].cmd = "mix" => log[k].src = "movie.mp4"

\* C6: once the narration has been checked, silent or invalid audio (duration
\* unreadable or zero, or mean volume below -60 dB) has ended the run with
\* status 1, the mux encoder not invoked and movie.mp4 not written; audio of
\* positive duration with mean volume exactly -60 dB, or whose volume analysis
\* failed, has passed the check.
C6_SilentAudioFails ==
  Called("ffprobe_silence") =>
    /\ SilentOrInvalid(audio) =>
         /\ pc = "done" /\ exit_status = 1
         /\ ~Called("mux")
         /\ fs["movie.mp4"] # "fresh"
    /\ (audio.durOk /\ audio.dur > 0 /\ (~audio.volOk \/ audio.vol = -60)) =>
         (pc = "mux" \/ Called("mux"))

C6_Witness ==
  /\ Called("volumedetect") /\ audio.volOk /\ audio.vol < -60
  /\ pc = "done" /\ exit_status = 1
  /\ fs["temp_video.mp4"] = "fresh"

\* C7: with no beat_*.png image, a run that is past discovery has ended with
\* status 1, has invoked no ffmpeg or ffprobe process and has written no clip,
\* manifest or video file.
C7_NoImagesAborts ==
  (images = {} /\ pc \notin {"import", "fetch", "discover"}) =>
    /\ pc = "done" /\ exit_status = 1
    /\ \A k \in Idx : log[k].cmd \notin ProcessCmds
    /\ \A f \in Files \ TrackFiles : fs[f] # "fresh"
    /\ manifest = <<>>

C7_Witness ==
  /\ images = {} /\ pc = "done" /\ exit_status = 1
  /\ Called("download")

\* C8: the manifest has one file line per discovered image, and line j names
\* the absolute path of the clip rendered from the j-th image in ascending
\* name order; the discovered list and the renders are in that order too.
C8_ManifestOrder ==
  /\ \A j \in 1..Len(image_files) : Rank(image_files[j]) = j
  /\ \A k \in Idx : log[k].cmd = "render" =>
       Cardinality({ j \in 1..k : log[j].cmd = "render" }) = Rank(log[k].img)
  /\ Called("write_manifest") =>
       /\ Len(manifest) = Cardinality(images)
       /\ \A j \in 1..Len(manifest) :
            /\ manifest[j].directive = "file"
            /\ \E k \in Idx : /\ log[k].cmd = "render"
                              /\ Rank(log[k].img) = j
                              /\ manifest[j].path = << "cwd", log[k].dst >>

C8_Witness ==
  /\ Called("write_manifest") /\ Len(manifest) = 2
  /\ images = { <<2>>, <<1, 0>> }

\* C9: the stages run in the fixed order: the narration is probed before any
\* render, the concatenation encoder is invoked only after a render was issued
\* for every image, the mux encoder only after the concatenation succeeded and
\* the silence check passed, the subtitle and music encoders only after the
\* mux succeeded and the subtitle encoder before the music encoders, and files
\* are removed only after the music stage, with nothing invoked afterwards.
C9_StageOrder ==
  \A k \in Idx :
    /\ log[k].cmd = "render" => \E j \in 1..(k-1) : log[j].cmd = "ffprobe_duration"
    /\ log[k].cmd = "concat" =>
         \A img \in images : \E j \in 1..(k-1) : log[j].cmd = "render" /\ log[j].img = img
    /\ log[k].cmd = "ffprobe_silence" =>
         \E j \in 1..(k-1) : log[j].cmd = "concat" /\ log[j].rc = 0
    /\ log[k].cmd = "mux" =>
         /\ \E j \in 1..(k-1) : log[j].cmd = "concat" /\ log[j].rc = 0
         /\ \E j \in 1..(k-1) : log[j].cmd = "ffprobe_silence"
         /\ ~SilentOrInvalid(audio)
    /\ log[k].cmd \in {"subtitle", "trim", "mix"} =>
         \E j \in 1..(k-1) : log[j].cmd = "mux" /\ log[j].rc = 0
    /\ log[k].cmd = "subtitle" =>
         \A j \in 1..(k-1) : log[j].cmd \notin {"trim", "mix"}
    /\ log[k].cmd = "remove" =>
         /\ \E j \in 1..(k-1) : log[j].cmd = "mux" /\ log[j].rc = 0
         /\ (\E j \in 1..(k-1) : log[j].cmd = "trim") \/ MusicFiles(fs) = {}
         /\ \A j \in (k+1)..Len(log) : log[j].cmd = "remove"
         /\ pc = "done"

C9_Witness ==
  /\ pc = "done" /\ exit_status = 0
  /\ Called("remove") /\ Called("subtitle") /\ Called("mix")
  /\ Len(image_files) = 2

\* C10: at most one render encoder runs at a time, renders are issued in
\* ascending image order, each has exited before the next is started, and once
\* the loop is over a render has been issued for every image that follows one
\* whose render failed.
C10_SequentialRenders ==
  /\ Cardinality(procs) <= 1
  /\ \A j, k \in Idx :
       (j < k /\ log[j].cmd = "render" /\ log[k].cmd = "render") =>
         (LexLess(log[j].img, log[k].img) /\ log[j].exited)
  /\ \A k \in Idx :
       (log[k].cmd = "render" /\ log[k].exited /\ log[k].rc # 0
        /\ (pc \notin {"render", "render_wait"} \/ (pc = "render" /\ i > Len(image_files))))
       => \A img \in images :
            LexLess(log[k].img, img) => \E j \in Idx : log[j].cmd = "render" /\ log[j].img = img

C10_Witness ==
  /\ pc = "done" /\ Len(image_files) = 2
  /\ \E j, k \in Idx : /\ j < k
                       /\ log[j].cmd = "render" /\ log[j].rc # 0 /\ log[j].exited
                       /\ log[k].cmd = "render" /\ log[k].exited

C12_SubtitleFailureNonFatal ==
  \A k \in Idx :
    (log[k].cmd = "subtitle" /\ log[k].rc # 0) =>
      /\ fs["movie.mp4"] = "fresh"
      /\ \A j \in Idx : log[j].dst = "movie.mp4" => log[j].cmd = "mux"
      /\ pc \in {"music", "cleanup", "done"}
      /\ pc \in {"cleanup", "done"} => Called("trim")
      /\ pc = "done" => (exit_status = 0 /\ Removed("concat_list.txt"))

C12_Witness ==
  /\ pc = "done" /\ exit_status = 0
  /\ \E k \in Idx : log[k].cmd = "subtitle" /\ log[k].rc # 0
  /\ Called("trim") /\ Removed("concat_list.txt")

\* C13: the mix encoder is invoked only after a trim that succeeded; after a
\* failed trim or mix, movie.mp4 and movie_subtitled.mp4 are as the mux and the
\* subtitle stage left them, cleanup runs and the run ends with status 0.
C13_MusicFailureNonFatal ==
  /\ \A k \in Idx : log[k].cmd = "mix" =>
       \E j \in 1..(k-1) : log[j].cmd = "trim" /\ log[j].rc = 0
  /\ \A k \in Idx :
       (log[k].cmd \in {"trim", "mix"} /\ log[k].rc # 0) =>
         /\ fs["movie.mp4"] = "fresh"
         /\ \A j \in Idx : log[j].dst = "movie.mp4" => log[j].cmd = "mux"
         /\ \A j \in Idx : log[j].dst = "movie_subtitled.mp4" => log[j].cmd = "subtitle"
         /\ fs["movie_subtitled.mp4"] = "fresh" <=> Succeeded("subtitle")
         /\ pc \in {"cleanup", "done"}
         /\ pc = "done" => (exit_status = 0 /\ Removed("concat_list.txt"))

C13_Witness ==
  /\ pc = "done" /\ exit_status = 0
  /\ \E k \in Idx : log[k].cmd = "mix" /\ log[k].rc # 0
  /\ Succeeded("subtitle") /\ Removed("concat_list.txt")

\* C14: movie_subtitled.mp4 is written, and the subtitle encoder invoked, only
\* when speech.srt exists; movie_final.mp4 is written, and the trim and mix
\* encoders invoked, only when a music_*.mp3 candidate exists.
C14_OptionalOutputs ==
  /\ (fs["movie_subtitled.mp4"] = "fresh" \/ Called("subtitle")) => srt
  /\ (fs["movie_final.mp4"] = "fresh" \/ Called("trim") \/ Called("mix")) =>
       /\ \E f \in TrackFiles : fs[f] # "absent"
       /\ \E k \in Idx : log[k].cmd = "trim" /\ log[k].src \in TrackFiles \cup {"music_trimmed.mp3"}
  /\ (pc \in {"cleanup", "done"} /\ Succeeded("mux") /\ MusicFiles(fs) = {}) =>
       (~Called("trim") /\ ~Called("mix"))

C14_Witness ==
  /\ pc = "done" /\ exit_status = 0 /\ Succeeded("mux")
  /\ ~srt /\ ~Called("subtitle") /\ fs["movie_subtitled.mp4"] = "absent"
  /\ Called("trim")

\* C15: in every result of generate_random_zoompan the pan start and the pan
\* end differ by at least 0.1 on each axis.
C15_PanMoves ==
  zp.pc = "returned" =>
    /\ Abs(zp.out.x_end - zp.out.x_start) >= 10
    /\ Abs(zp.out.y_end - zp.out.y_start) >= 10

\* C16: in every result of generate_random_zoompan both zoom factors lie in
\* [1.0, 1.5] and the four pan coordinates in [0, 0.3].
C16_EffectRanges ==
  zp.pc = "returned" =>
    /\ zp.out.zoom_start \in 100..150 /\ zp.out.zoom_end \in 100..150
    /\ zp.out.x_start \in 0..30 /\ zp.out.y_start \in 0..30
    /\ zp.out.x_end \in 0..30 /\ zp.out.y_end \in 0..30

C16_Witness ==
  /\ zp.pc = "returned" /\ zp.d.swap
  /\ zp.d.x_start = 15 /\ zp.d.x_end = 15 /\ zp.d.x_up /\ zp.out.x_end = 30
  /\ zp.d.y_start = 5 /\ zp.d.y_end = 5 /\ ~zp.d.y_up /\ zp.out.y_end = 0

\* C17: with a readable narration of duration T and N images, every render is
\* given the same duration T / N, so the durations add up to T, and the frame
\* count given to the effect synthesizer is T / N x 25 cut to an integer.
C17_TimePerImage ==
  audio.durOk =>
    \A k \in Idx : log[k].cmd = "render" =>
      LET T == audio.dur
          N == Cardinality(images)
      IN /\ log[k].t.den > 0
         /\ log[k].t.num * N = T * log[k].t.den
         /\ log[k].frames * N * 100 <= T * 25
         /\ T * 25 < (log[k].frames + 1) * N * 100

C17_Witness ==
  /\ audio.durOk /\ audio.dur = 10
  /\ Cardinality({ k \in Idx : log[k].cmd = "render" /\ log[k].frames = 1 }) = 2

\* C18: when the narration's duration cannot be read, the probe yields 30.0
\* seconds, each clip is timed 30.0 / N and the run goes on to render instead
\* of ending at the timing step.
C18_DurationFallback ==
  (Called("ffprobe_duration") /\ ~audio.durOk) =>
    /\ audio_duration = 3000
    /\ time_per_image = [num |-> 3000, den |-> Cardinality(images)]
    /\ pc = "done" => Called("render")
    /\ \A k \in Idx : log[k].cmd = "render" =>
         log[k].t = [num |-> 3000, den |-> Cardinality(images)]
    /\ \A k \in Idx : log[k].cmd = "trim" => log[k].t = [num |-> 3000, den |-> 1]

C18_Witness ==
  /\ ~audio.durOk /\ pc = "done"
  /\ Cardinality({ k \in Idx : log[k].cmd = "render" }) = 2

\* C19: in a run that follows a run in which everything succeeded, as long as
\* every earlier call of the run succeeded each call is the call the previous
\* run made at that position, and when the run has ended with status 0 and
\* every call succeeding the same files exist as after the previous run.
C19_RerunSameArtifacts ==
  prev.ok =>
    /\ \A k \in Idx :
         AllOk(SubSeq(log, 1, k - 1)) =>
           (k <= Len(prev.calls) /\ Call(log[k]) = prev.calls[k])
    /\ (pc = "done" /\ exit_status = 0 /\ AllOk(log)) =>
         (Len(log) = Len(prev.calls) /\ Existing(fs) = prev.files)

\* C20: when the audio stream of movie.mp4 was not detected after a successful
\* mux, the run goes on as otherwise: the subtitle stage when speech.srt
\* exists, the music stage, cleanup, and status 0.
C20_VerifyOnlyWarns ==
  \A k \in Idx :
    (log[k].cmd = "ffprobe_verify" /\ log[k].rc # 0) =>
      /\ pc \in {"subtitle", "music", "cleanup", "done"}
      /\ (pc \in {"music", "cleanup", "done"} /\ srt) => Called("subtitle")
      /\ pc \in {"cleanup", "done"} => Called("trim")
      /\ pc = "done" => (exit_status = 0 /\ Removed("concat_list.txt"))

C20_Witness ==
  /\ pc = "done" /\ exit_status = 0
  /\ \E k \in Idx : log[k].cmd = "ffprobe_verify" /\ log[k].rc # 0
  /\ Called("subtitle") /\ Called("mix") /\ Removed("concat_list.txt")

\* equality of two fractions
FracEq(a, b) == a.num * b.den = b.num * a.den

\* zs + (ze - zs) * e, for e a fraction
Eased(zs, ze, e) == [num |-> zs * e.den + (ze - zs) * e.num, den |-> e.den]

\* quadratic ease-out 1 - (1 - p)^2 at p = n / m
EaseOutQuad(n, m) == [num |-> (m * m) - ((m - n) * (m - n)), den |-> m * m]

\* quadratic ease-in p^2 at p = n / m
EaseInQuad(n, m) == [num |-> n * n, den |-> m * m]

\* C21 as stated: for a frame count D >= 2 the zoom is zoom_start at frame 0,
\* zoom_start + (zoom_end - zoom_start) * e(p) at the later frames, with e the
\* quadratic ease-out and p = (frame - 1) / (D - 1), and zoom_end at frame D.
C21_ZoomEaseOut ==
  (zp.pc = "returned" /\ zp.frames >= 2) =>
    LET D == zp.frames
        zs == zp.out.zoom_start
        ze == zp.out.zoom_end
    IN
    /\ FracEq(ZoomAt(zp.filter.z, 0), [num |-> zs, den |-> 1])
    /\ \A frame \in 1..D :
         FracEq(ZoomAt(zp.filter.z, frame), Eased(zs, ze, EaseOutQuad(frame - 1, D - 1)))
    /\ FracEq(ZoomAt(zp.filter.z, D), [num |-> ze, den |-> 1])

\* C21 amended: the same trajectory with e the quadratic ease-in e(p) = p^2:
\* zoom_start at frame 0, zoom_start + (zoom_end - zoom_start) * p^2 at the
\* later frames, zoom_end at frame D.
C21_ZoomTrajectory ==
  (zp.pc = "returned" /\ zp.frames >= 2) =>
    LET D == zp.frames
        zs == zp.out.zoom_start
        ze == zp.out.zoom_end
    IN
    /\ FracEq(ZoomAt(zp.filter.z, 0), [num |-> zs, den |-> 1])
    /\ \A frame \in 1..D :
         FracEq(ZoomAt(zp.filter.z, frame), Eased(zs, ze, EaseInQuad(frame - 1, D - 1)))
    /\ FracEq(ZoomAt(zp.filter.z, D), [num |-> ze, den |-> 1])

C21_Witness ==
  /\ zp.pc = "returned" /\ zp.frames = 3
  /\ zp.out.zoom_start = 140 /\ zp.out.zoom_end = 120
  /\ FracEq(ZoomAt(zp.filter.z, 2), [num |-> 135, den |-> 1])
  /\ FracEq(ZoomAt(zp.filter.z, 3), [num |-> 120, den |-> 1])

C23_ChunkSizes ==
  chunker.pc = "returned" =>
    \A k \in 1..Len(chunker.chunks) : Len(chunker.chunks[k]) \in 4..8

\* C24: when the mix has written movie_final.mp4 in a run, the video it was
\* mixed from is movie.mp4 or movie_subtitled.mp4 as written in that run.
C24_MixFromThisRun ==
  \A k \in Idx :
    (log[k].cmd = "mix" /\ log[k].exited /\ log[k].rc = 0) =>
      /\ log[k].src \in { "movie.mp4", "movie_subtitled.mp4" }
      /\ fs[log[k].src] = "fresh"

\* C25: the trim encoder is never invoked with music_trimmed.mp3, its own
\* output, as its input.
C25_TrimNotOwnOutput ==
  \A k \in Idx : log[k].cmd = "trim" => log[k].src # log[k].dst

\* C26: with a narration of duration T > 0 every render calls the effect
\* synthesizer with a frame count of at least 2.
C26_FrameCountAtLeastTwo ==
  \A k \in Idx :
    (log[k].cmd = "render" /\ audio_duration > 0) => log[k].frames >= 2

\* C27: with no scene directory and the client id set, a run does not end
\* before image discovery: when it has ended, fetch_jamendo_track had returned
\* (its download is the last thing it does) and discovery was entered.
C27_FallbackReachesDiscovery ==
  (scene_path = "none" /\ client_id /\ pc = "done") => Called("download")

====
